---- MODULE Spec2Model ----
(***************************************************************************)
(* currencyx-js: the exchange contract, the Google Finance and Fixer       *)
(* exchanges, and the CurrencyService registry, as a state machine.        *)
(*                                                                         *)
(* Numbers are exact rationals [t |-> "number", n, d] in lowest terms.     *)
(* JavaScript's undefined, null, NaN and Infinity are their own values.    *)
(* An asynchronous method is a call record that runs synchronously up to   *)
(* its upstream fetch (pc "fetch"), and is resumed by the upstream's       *)
(* response.  Timestamps and dates of the envelopes are left out: they     *)
(* come from the clock and nothing reads them.                             *)
(***************************************************************************)
EXTENDS Integers, Sequences, FiniteSets, TLC

\* ------------------------------------------------------------------ bounds
\* amounts are the integers -1 .. MaxAmount
MaxAmount == 1
\* upstream (Fixer) rates are 0, 1/2 and 1 .. MaxRate
MaxRate == 1
\* symbol lists have at most MaxSymbols entries
MaxSymbols == 2

\* ------------------------------------------------------------ JS values
Undefined == [t |-> "undefined"]
Null == [t |-> "null"]
NaN == [t |-> "NaN"]
Infinity == [t |-> "Infinity"]
JsTrue == [t |-> "boolean", v |-> TRUE]
JsFalse == [t |-> "boolean", v |-> FALSE]
\* a string value
S(s) == [t |-> "string", s |-> s]

Abs(x) == IF x < 0 THEN -x ELSE x

RECURSIVE GCD(_, _)
GCD(a, b) == IF b = 0 THEN a ELSE GCD(b, a % b)

\* the rational n/d (d # 0) in lowest terms with a positive denominator
Rat(n, d) ==
  LET g == GCD(Abs(n), Abs(d))
      s == IF d < 0 THEN -1 ELSE 1
  IN  [t |-> "number", n |-> (s * n) \div g, d |-> (s * d) \div g]

Num(n) == Rat(n, 1)
One == Num(1)

\* a * b of two numbers
RatMul(a, b) == Rat(a.n * b.n, a.d * b.d)

\* a / b of two numbers, as the host computes it: x / 0 is Infinity, 0 / 0 is NaN
RatDiv(a, b) ==
  IF b.n = 0
    THEN (IF a.n = 0 THEN NaN ELSE Infinity)
    ELSE Rat(a.n * b.d, a.d * b.n)

\* JavaScript truthiness of a value: 0, NaN, undefined and null are falsy
Truthy(v) ==
  CASE v.t = "number" -> v.n # 0
    [] v.t = "boolean" -> v.v
    [] v.t = "string" -> v.s # ""
    [] v.t \in {"undefined", "null", "NaN"} -> FALSE
    [] OTHER -> TRUE

\* isNaN(v) for v a number, NaN, Infinity or undefined
IsNaN(v) == v.t \in {"NaN", "undefined"}

\* ------------------------------------------------------------- domains
Codes == {"USD", "EUR", "GBP"}

\* BaseCurrencyExchange.currencies: the codes of the currency table, in order
currencies == <<"USD", "EUR", "GBP">>

Amounts == {Num(a) : a \in -1 .. MaxAmount}

\* the exchange objects; the registry key of each is its name
ExchangeNames == {"google", "fixer"}
\* names a caller may pass to use() or give as config.default
NameInputs == ExchangeNames \cup {"other"}

SymbolLists == UNION {[1 .. k -> Codes] : k \in 0 .. MaxSymbols}

\* --------------------------------------------------- result envelopes
\* an envelope's error object
Error(code, info, type) == [t |-> "error", code |-> code, info |-> info, type |-> type]

\* a faulty createConversionResult: success computed from the error alone
createConversionResultNoResultCheck(amount, from, to, result, rate, error) ==
  [success |-> ~Truthy(error),
   query |-> [from |-> from, to |-> to, amount |-> amount],
   info |-> [rate |-> rate],
   result |-> result,
   error |-> error]

\* BaseCurrencyExchange.createConversionResult
createConversionResult(amount, from, to, result, rate, error) ==
  [success |-> ~Truthy(error) /\ result # Undefined,
   query |-> [from |-> from, to |-> to, amount |-> amount],
   info |-> [rate |-> rate],
   result |-> result,
   error |-> error]

RECURSIVE Pow10(_)
Pow10(k) == IF k = 0 THEN 1 ELSE 10 * Pow10(k - 1)

\* a faulty Math.round that drops the fraction
MathFloor(x) == Num(x.n \div x.d)

\* Math.round(x): the integer nearest to x, a half going up
MathRound(x) == Num((2 * x.n + x.d) \div (2 * x.d))

\* Math.pow(10, k) for an integer k >= 0
MathPow10(k) == Num(Pow10(k.n))

\* BaseCurrencyExchange.round(value, precision); precision may be undefined
round(value, precision) ==
  IF precision # Undefined
    THEN RatDiv(MathRound(RatMul(value, MathPow10(precision))), MathPow10(precision))
    ELSE RatDiv(MathRound(RatMul(value, Num(100))), Num(100))

\* a rates object: a function from the codes it holds to their rates
EmptyRates == [c \in {} |-> Undefined]

\* rates[code], undefined when the key is absent
Lookup(rates, code) == IF code \in DOMAIN rates THEN rates[code] ELSE Undefined

\* rates[code] = v
Store(rates, code, v) ==
  [c \in DOMAIN rates \cup {code} |-> IF c = code THEN v ELSE rates[c]]

\* a faulty createExchangeRatesResult: success computed from the error alone
createExchangeRatesResultNoKeysCheck(b, rates, error) ==
  [success |-> ~Truthy(error),
   base |-> b,
   rates |-> rates,
   error |-> error]

\* BaseCurrencyExchange.createExchangeRatesResult
createExchangeRatesResult(b, rates, error) ==
  [success |-> ~Truthy(error) /\ Cardinality(DOMAIN rates) > 0,
   base |-> b,
   rates |-> rates,
   error |-> error]

\* ------------------------------------------------ outcomes of a block
\* a block of code either returns a value or throws an Error with a message
Return(v) == [threw |-> FALSE, val |-> v]
Throw(message) == [threw |-> TRUE, val |-> S(message)]

\* how far an asynchronous method got: it returned, it rejected, or it is
\* suspended at an upstream fetch for request req with its locals k
Done(v) == [pc |-> "done", threw |-> FALSE, ret |-> v]
Rejected(e) == [pc |-> "done", threw |-> TRUE, ret |-> e]
Await(req, k) == [pc |-> "fetch", req |-> req, k |-> k]

\* ------------------------------------------------------ upstream responses
\* fetch rejects (network error or AbortSignal timeout), or resolves with a
\* status that is OK or not and a body
NetworkError == [kind |-> "neterr"]
Timeout == [kind |-> "timeout"]
HttpError == [kind |-> "http"]
Ok(body) == [kind |-> "ok", body |-> body]

\* ------------------------------------------------------- Google Finance
\* A body is read only through the four patterns of parseRateFromHtml, so
\* a body is given by what html.match(pattern) returns for each of them:
\* NoMatch (null), or the match's capture groups.  Pattern 1 has two
\* groups, the number being the second; patterns 2 to 4 have one group,
\* the number, and no second group.
NoMatch == [t |-> "null"]
Match(g1, g2) == [t |-> "match", g1 |-> g1, g2 |-> g2]
\* a body, by the four matches
Html(m1, m2, m3, m4) == [t |-> "html", matches |-> <<m1, m2, m3, m4>>]
\* the text of a capture group, as its characters
Text(chars) == [t |-> "text", chars |-> chars]

\* the texts the number group [0-9,]+\.?[0-9]* captures in the model
Captures ==
  {Text(<<"2">>), Text(<<"0">>), Text(<<",">>), Text(<<"0", ".", "5">>),
   Text(<<"1", ",", "2">>)}

DigitVal(ch) ==
  CASE ch = "0" -> 0 [] ch = "1" -> 1 [] ch = "2" -> 2 [] ch = "3" -> 3
    [] ch = "4" -> 4 [] ch = "5" -> 5 [] ch = "6" -> 6 [] ch = "7" -> 7
    [] ch = "8" -> 8 [] ch = "9" -> 9

\* s.replace(/,/g, '')
RECURSIVE RemoveCommas(_)
RemoveCommas(chars) ==
  IF chars = <<>> THEN <<>>
  ELSE IF Head(chars) = "," THEN RemoveCommas(Tail(chars))
  ELSE <<Head(chars)>> \o RemoveCommas(Tail(chars))

RECURSIVE DigitsValue(_)
DigitsValue(ds) ==
  IF ds = <<>> THEN 0 ELSE 10 * DigitsValue(SubSeq(ds, 1, Len(ds) - 1)) + DigitVal(ds[Len(ds)])

\* parseFloat of digits, an optional point and digits: NaN when no digit
\* stands before or right after the point
parseFloat(chars) ==
  LET dots == {i \in 1 .. Len(chars) : chars[i] = "."}
      dot == IF dots = {} THEN Len(chars) + 1 ELSE CHOOSE i \in dots : \A j \in dots : i <= j
      ip == SubSeq(chars, 1, dot - 1)
      fp == SubSeq(chars, dot + 1, Len(chars))
  IN  IF ip = <<>> /\ fp = <<>> THEN NaN
      ELSE Rat(DigitsValue(ip) * Pow10(Len(fp)) + DigitsValue(fp), Pow10(Len(fp)))

\* match[2] of a match object
Group2(m) == m.g2

\* GoogleFinanceExchange.parseRateFromHtml: the loop over the patterns from i on
RECURSIVE parseFrom(_, _)
parseFrom(html, i) ==
  IF i > Len(html) THEN Undefined
  ELSE LET match == html[i]
       IN  IF match # NoMatch /\ Truthy(Group2(match))
             THEN LET rate == parseFloat(RemoveCommas(Group2(match).chars))
                  IN  IF ~IsNaN(rate) /\ rate.n > 0 THEN rate ELSE parseFrom(html, i + 1)
             ELSE parseFrom(html, i + 1)

parseRateFromHtml(html) == parseFrom(html.matches, 1)

\* the body of getRate's try block, after the fetch settled with resp
getRateTry(resp) ==
  IF resp.kind \in {"neterr", "timeout"} THEN Throw("fetch failed")
  ELSE IF resp.kind = "http" THEN Throw("HTTP status")
  ELSE LET rate == parseRateFromHtml(resp.body)
       IN  IF Truthy(rate) /\ ~IsNaN(rate) THEN Return(rate) ELSE Throw("Failed to parse rate")

\* a faulty getRate whose catch rethrows
getRateNoCatch(resp) == getRateTry(resp)

\* a faulty getRate whose catch returns 0
getRateZeroOnError(resp) ==
  LET r == getRateTry(resp) IN IF r.threw THEN Return(Num(0)) ELSE r

\* GoogleFinanceExchange.getRate, resumed with the response: the catch
\* logs the error and returns undefined
getRate(resp) ==
  LET r == getRateTry(resp) IN IF r.threw THEN Return(Undefined) ELSE r

\* the fetch of getRate(from, to): GET <baseUrl>/quote/<from>-<to>
QuoteRequest(from, to) == [api |-> "google", from |-> from, to |-> to]

\* a faulty convert without the same-currency short cut
GoogleConvertStartAlwaysFetch(p) == Await(QuoteRequest(p.from, p.to), Undefined)

\* GoogleFinanceExchange.convert up to its first await
GoogleConvertStart(p) ==
  IF p.from = p.to
    THEN Done(createConversionResult(p.amount, p.from, p.to, p.amount, One, Undefined))
    ELSE Await(QuoteRequest(p.from, p.to), Undefined)

\* the try block of GoogleFinanceExchange.convert from `await this.getRate` on
GoogleConvertTry(p, resp) ==
  LET r == getRate(resp)
  IN  IF r.threw THEN r
      ELSE IF ~Truthy(r.val)
        THEN Return(createConversionResult(p.amount, p.from, p.to, Undefined, Undefined,
                      Error(Undefined, S("Failed to get exchange rate"), S("RATE_NOT_FOUND"))))
        ELSE Return(createConversionResult(p.amount, p.from, p.to,
                      RatMul(r.val, p.amount), r.val, Undefined))

\* GoogleFinanceExchange.convert resumed with the response, with its catch
GoogleConvertResume(p, resp) ==
  LET r == GoogleConvertTry(p, resp)
  IN  IF r.threw
        THEN Done(createConversionResult(p.amount, p.from, p.to, Undefined, Undefined,
                    Error(Undefined, r.val, S("CONVERSION_ERROR"))))
        ELSE Done(r.val)

\* GoogleFinanceExchange.getConvertRate
GoogleGetConvertRateStart(p) == Await(QuoteRequest(p.from, p.to), Undefined)

GoogleGetConvertRateResume(p, resp) ==
  LET r == getRate(resp) IN IF r.threw THEN Rejected(r.val) ELSE Done(r.val)

\* the symbols latestRates walks: params?.symbols || this.currencies
GoogleSymbols(p) == IF "symbols" \in DOMAIN p THEN p.symbols ELSE currencies

\* a faulty loop that fetches the base symbol like any other
GoogleLatestRatesLoopAlwaysFetch(syms, i, rates, b) ==
  IF i > Len(syms) THEN Done(createExchangeRatesResult(b, rates, Undefined))
  ELSE Await(QuoteRequest(b, syms[i]), [i |-> i, rates |-> rates])

\* GoogleFinanceExchange.latestRates: the for loop from symbol i on, with the
\* rates gathered so far and b the exchange's base as the loop reads it; it
\* runs to the next getRate fetch or to the end
RECURSIVE GoogleLatestRatesLoop(_, _, _, _)
GoogleLatestRatesLoop(syms, i, rates, b) ==
  IF i > Len(syms) THEN Done(createExchangeRatesResult(b, rates, Undefined))
  ELSE IF syms[i] = b THEN GoogleLatestRatesLoop(syms, i + 1, Store(rates, syms[i], One), b)
  ELSE Await(QuoteRequest(b, syms[i]), [i |-> i, rates |-> rates])

GoogleLatestRatesStart(p, b) == GoogleLatestRatesLoop(GoogleSymbols(p), 1, EmptyRates, b)

\* a faulty latestRates that gives up at the first symbol without a rate
GoogleLatestRatesResumeAbort(p, k, b, resp) ==
  LET r == getRate(resp)
      code == GoogleSymbols(p)[k.i]
  IN  IF r.threw \/ ~Truthy(r.val)
        THEN Done(createExchangeRatesResult(b, EmptyRates,
                    Error(Undefined, S("no rate"), S("FETCH_ERROR"))))
        ELSE GoogleLatestRatesLoop(GoogleSymbols(p), k.i + 1, Store(k.rates, code, r.val), b)

\* a faulty latestRates that fetches a symbol once more when its fetch gave
\* no rate
GoogleLatestRatesResumeRetry(p, k, b, resp) ==
  LET r == getRate(resp)
      code == GoogleSymbols(p)[k.i]
  IN  IF ~Truthy(r.val) /\ "retried" \notin DOMAIN k
        THEN Await(QuoteRequest(b, code), [i |-> k.i, rates |-> k.rates, retried |-> TRUE])
        ELSE GoogleLatestRatesLoop(GoogleSymbols(p), k.i + 1,
               IF Truthy(r.val) THEN Store(k.rates, code, r.val) ELSE k.rates, b)

\* latestRates resumed with the response to the fetch for symbol k.i; a
\* throw inside the loop reaches the catch, which builds the FETCH_ERROR envelope
GoogleLatestRatesResume(p, k, b, resp) ==
  LET r == getRate(resp)
      code == GoogleSymbols(p)[k.i]
  IN  IF r.threw
        THEN Done(createExchangeRatesResult(b, EmptyRates,
                    Error(Undefined, r.val, S("FETCH_ERROR"))))
        ELSE GoogleLatestRatesLoop(GoogleSymbols(p), k.i + 1,
               IF Truthy(r.val) THEN Store(k.rates, code, r.val) ELSE k.rates, b)

\* ----------------------------------------------------------------- Fixer
\* A JSON body is either unparseable (response.json() rejects) or a value.
Unparseable == [t |-> "unparseable"]

\* a FixerResponse / FixerConvertResponse object; absent members are undefined
LatestData(success, rates, error) ==
  [t |-> "object", success |-> success, rates |-> rates, error |-> error]
\* the rates member of a FixerResponse holding the table f
RatesObject(f) == [t |-> "object", m |-> f]
\* the error member of a response
ErrorObject(code, info, type) == [t |-> "object", code |-> code, info |-> info, type |-> type]
\* the info member of a FixerConvertResponse
InfoObject(rate) == [t |-> "object", rate |-> rate]
ConvertData(success, result, info, error) ==
  [t |-> "object", success |-> success, result |-> result, info |-> info, error |-> error]

\* GET <baseUrl>/latest?access_key&base[&symbols]; symbols is <<>> when the
\* URL carries none
LatestRequest(b, symbols) == [api |-> "fixer/latest", base |-> b, symbols |-> symbols]
\* GET <baseUrl>/convert?access_key&from&to&amount
ConvertRequest(p) == [api |-> "fixer/convert", from |-> p.from, to |-> p.to, amount |-> p.amount]

\* the statements shared by both try blocks: await fetch, the status check
\* and await response.json(); data is the parsed body
FixerFetchJson(resp) ==
  IF resp.kind \in {"neterr", "timeout"} THEN Throw("fetch failed")
  ELSE IF resp.kind = "http" THEN Throw("HTTP status")
  ELSE IF resp.body = Unparseable THEN Throw("invalid json")
  ELSE IF resp.body = Null THEN Throw("Cannot read properties of null")
  ELSE Return(resp.body)

\* whether data.error?.x reads a member of data.error
HasError(data) == data.error \notin {Undefined, Null}

\* data.error?.info || 'Unknown error from Fixer.io'
ErrorInfo(data) ==
  IF HasError(data) /\ Truthy(data.error.info) THEN data.error.info
  ELSE S("Unknown error from Fixer.io")

\* data.error?.type || 'API_ERROR'
ErrorType(data) ==
  IF HasError(data) /\ Truthy(data.error.type) THEN data.error.type
  ELSE S("API_ERROR")

\* data.error?.code
ErrorCode(data) == IF HasError(data) THEN data.error.code ELSE Undefined

\* FixerProvider.latestRates up to its await
FixerLatestRatesStart(p, b) ==
  Await(LatestRequest(b, IF "symbols" \in DOMAIN p /\ Len(p.symbols) > 0
                           THEN p.symbols ELSE <<>>), Undefined)

\* the try block of FixerProvider.latestRates after the fetch; b is this.base
FixerLatestRatesTry(b, resp) ==
  LET j == FixerFetchJson(resp)
  IN  IF j.threw THEN j
      ELSE LET data == j.val
           IN  IF ~Truthy(data.success)
                 THEN Return(createExchangeRatesResult(b, EmptyRates,
                        Error(ErrorCode(data), ErrorInfo(data), ErrorType(data))))
                 ELSE Return(createExchangeRatesResult(b,
                        IF Truthy(data.rates) THEN data.rates.m ELSE EmptyRates, Undefined))

\* FixerProvider.latestRates resumed with the response, with its catch
FixerLatestRatesResume(b, resp) ==
  LET r == FixerLatestRatesTry(b, resp)
  IN  IF r.threw
        THEN Done(createExchangeRatesResult(b, EmptyRates,
                    Error(Undefined, r.val, S("FETCH_ERROR"))))
        ELSE Done(r.val)

\* FixerProvider.convert up to its await
FixerConvertStart(p) ==
  IF p.from = p.to
    THEN Done(createConversionResult(p.amount, p.from, p.to, p.amount, One, Undefined))
    ELSE Await(ConvertRequest(p), Undefined)

\* the try block of FixerProvider.convert after the fetch
FixerConvertTry(p, resp) ==
  LET j == FixerFetchJson(resp)
  IN  IF j.threw THEN j
      ELSE LET data == j.val
           IN  IF ~Truthy(data.success)
                 THEN Return(createConversionResult(p.amount, p.from, p.to, Undefined, Undefined,
                        Error(ErrorCode(data), ErrorInfo(data), ErrorType(data))))
                 ELSE Return(createConversionResult(p.amount, p.from, p.to, data.result,
                        IF data.info \notin {Undefined, Null} THEN data.info.rate ELSE Undefined,
                        Undefined))

\* FixerProvider.convert resumed with the response, with its catch
FixerConvertResume(p, resp) ==
  LET r == FixerConvertTry(p, resp)
  IN  IF r.threw
        THEN Done(createConversionResult(p.amount, p.from, p.to, Undefined, Undefined,
                    Error(Undefined, r.val, S("CONVERSION_ERROR"))))
        ELSE Done(r.val)

\* FixerProvider.getConvertRate up to its await: b is this.base; the branch
\* taken is kept in the locals
FixerGetConvertRateStart(p, b) ==
  IF p.from = p.to THEN Done(One)
  ELSE IF p.from = b
    THEN Await(LatestRequest(b, <<p.to>>), [branch |-> "fromIsBase"])
  ELSE IF p.to = b
    THEN Await(LatestRequest(b, <<p.from>>), [branch |-> "toIsBase"])
  ELSE Await(LatestRequest(b, <<p.from, p.to>>), [branch |-> "cross"])

\* a faulty cross-rate: the two legs swapped
FixerCrossRateSwapped(rates, from, to) ==
  LET fromRate == Lookup(rates, from)
      toRate == Lookup(rates, to)
  IN  IF Truthy(fromRate) /\ Truthy(toRate) THEN RatDiv(fromRate, toRate) ELSE Undefined

\* getConvertRate's cross-currency branch, given latestRates' rates
FixerCrossRate(rates, from, to) ==
  LET fromRate == Lookup(rates, from)
      toRate == Lookup(rates, to)
  IN  IF Truthy(fromRate) /\ Truthy(toRate) THEN RatDiv(toRate, fromRate) ELSE Undefined

\* a faulty inverse that divides whatever the rate is
FixerInverseRateUnguarded(rates, from) ==
  LET rate == Lookup(rates, from)
  IN  IF rate = Undefined THEN Undefined ELSE RatDiv(One, rate)

\* a faulty inverse that returns the rate as it stands
FixerInverseRateNotInverted(rates, from) ==
  LET rate == Lookup(rates, from)
  IN  IF Truthy(rate) THEN rate ELSE Undefined

\* getConvertRate's branch for to === this.base
FixerInverseRate(rates, from) ==
  LET rate == Lookup(rates, from)
  IN  IF Truthy(rate) THEN RatDiv(One, rate) ELSE Undefined

\* FixerProvider.getConvertRate resumed: latestRates finishes with the
\* response and the branch k computes the rate from its envelope
FixerGetConvertRateResume(p, k, b, resp) ==
  LET r == FixerLatestRatesResume(b, resp)
  IN  IF r.threw THEN Done(Undefined)
      ELSE IF k.branch = "fromIsBase" THEN Done(Lookup(r.ret.rates, p.to))
      ELSE IF k.branch = "toIsBase" THEN Done(FixerInverseRate(r.ret.rates, p.from))
      ELSE Done(FixerCrossRate(r.ret.rates, p.from, p.to))

\* -------------------------------------------- the methods of an exchange
\* exchange ex's method op up to its first await; b is ex's base
MethodStart(ex, op, p, b) ==
  CASE ex = "google" /\ op = "convert" -> GoogleConvertStart(p)
    [] ex = "google" /\ op = "latestRates" -> GoogleLatestRatesStart(p, b)
    [] ex = "google" /\ op = "getConvertRate" -> GoogleGetConvertRateStart(p)
    [] ex = "fixer" /\ op = "convert" -> FixerConvertStart(p)
    [] ex = "fixer" /\ op = "latestRates" -> FixerLatestRatesStart(p, b)
    [] ex = "fixer" /\ op = "getConvertRate" -> FixerGetConvertRateStart(p, b)

\* the method resumed with the response to its fetch; k its locals
MethodResume(ex, op, p, k, b, resp) ==
  CASE ex = "google" /\ op = "convert" -> GoogleConvertResume(p, resp)
    [] ex = "google" /\ op = "latestRates" -> GoogleLatestRatesResume(p, k, b, resp)
    [] ex = "google" /\ op = "getConvertRate" -> GoogleGetConvertRateResume(p, resp)
    [] ex = "fixer" /\ op = "convert" -> FixerConvertResume(p, resp)
    [] ex = "fixer" /\ op = "latestRates" -> FixerLatestRatesResume(b, resp)
    [] ex = "fixer" /\ op = "getConvertRate" -> FixerGetConvertRateResume(p, k, b, resp)

\* ------------------------------------------------------ CurrencyService
\* A config.exchanges entry is an exchange instance or a factory function
\* returning one.
Instance(ex) == [factory |-> FALSE, instance |-> ex]
Factory(ex) == [factory |-> TRUE, returns |-> ex]

\* a faulty #initializeExchanges that registers the instances and skips the factories
initializeExchangesInstancesOnly(entries) ==
  [name \in {n \in DOMAIN entries : ~entries[n].factory} |-> entries[name].instance]

\* CurrencyService.#initializeExchanges: the registry built from the entries
initializeExchanges(entries) ==
  [name \in DOMAIN entries |->
     IF entries[name].factory THEN entries[name].returns ELSE entries[name].instance]

\* a faulty #getActiveExchange that resolves the configured default
getActiveExchangeDefault(cfg, registry, current) ==
  IF cfg.default \in DOMAIN registry THEN Return(registry[cfg.default])
  ELSE Throw("Exchange is not available")

\* CurrencyService.#getActiveExchange
getActiveExchange(cfg, registry, current) ==
  IF current = "" THEN Throw("No exchange is currently selected")
  ELSE IF current \notin DOMAIN registry THEN Throw("Exchange is not available")
  ELSE Return(registry[current])

\* CurrencyService.getCurrentExchange
getCurrentExchange(current) == current

\* CurrencyService.getAvailableExchanges: Array.from(this.#exchanges.keys())
getAvailableExchanges(registry) == DOMAIN registry

\* ---------------------------------------------------------------- state
VARIABLES
  config,           \* CurrencyService.#config
  exchanges,        \* CurrencyService.#exchanges: registry key -> exchange object
  currentExchange,  \* CurrencyService.#currentExchange
  base,             \* the base field of each exchange object
  fields,           \* the other fields of each exchange object
  calls,            \* the asynchronous calls, one per caller
  last,             \* the latest use() call and what it did
  returned          \* what the latest setBase, setKey or round call returned

vars == <<config, exchanges, currentExchange, base, fields, calls, last, returned>>

\* the callers; each has at most one call in flight
Callers == {1}

Idle == [st |-> [pc |-> "idle"]]

\* the entries a configuration may hold: google given as an instance, fixer
\* as a factory
ConfigEntries == [name \in ExchangeNames |->
                    IF name = "google" THEN Instance("google") ELSE Factory("fixer")]

Configs ==
  {[default |-> d, exchanges |-> [name \in names |-> ConfigEntries[name]]] :
     d \in NameInputs, names \in (SUBSET ExchangeNames) \ {{}}}

\* the base each exchange's constructor sets when its config gives none:
\* GoogleFinanceExchange 'USD', FixerProvider 'EUR'
DefaultBase == [ex \in ExchangeNames |-> IF ex = "google" THEN "USD" ELSE "EUR"]

\* the fields the constructors set besides base: GoogleFinanceExchange has a
\* name and a timeout, FixerProvider an access key too; the factories of
\* config/exchanges give the timeout 5000 when the config has none
DefaultFields ==
  [ex \in ExchangeNames |->
     IF ex = "google" THEN [name |-> "google", timeout |-> 5000]
     ELSE [name |-> "fixer", accessKey |-> "key0", timeout |-> 5000]]

\* the keys a caller may pass to setKey
Keys == {"key0", "key1"}

\* no synchronous call has returned a value its caller has not taken
Nothing == [op |-> "none"]
\* method op called on `on` (an exchange object or the service) with args
\* returned ret
Returned(op, on, args, ret) ==
  [op |-> op, on |-> on, args |-> args, threw |-> FALSE, ret |-> ret]
\* the call threw e
Thrown(op, on, args, e) ==
  [op |-> op, on |-> on, args |-> args, threw |-> TRUE, ret |-> e]

NoUse == [name |-> "none", threw |-> FALSE, ret |-> "none", used |-> "none"]

\* CurrencyService's constructor on cfg
Construct(cfg) ==
  /\ config = cfg
  /\ exchanges = initializeExchanges(cfg.exchanges)
  /\ currentExchange = cfg.default
  /\ base = DefaultBase
  /\ fields = DefaultFields
  /\ calls = [c \in Callers |-> Idle]
  /\ last = NoUse
  /\ returned = Nothing

Init == \E cfg \in Configs : Construct(cfg)

\* ------------------------------------------------------------- actions
\* caller c has no call
Free(c) == calls[c].st.pc = "idle"

\* a synchronous call runs to completion: its caller has the value it
\* returned before anything else runs
Taken == returned = Nothing

\* no caller holds a settled call it has not taken yet: a caller takes its
\* result before anything else runs
Quiet == Taken /\ \A c \in Callers : calls[c].st.pc # "done"

\* a faulty use() that moves the pointer before it checks the name
UseUnchecked(name) ==
  /\ Quiet
  /\ currentExchange' = name
  /\ last' = IF name \in DOMAIN exchanges
               THEN [name |-> name, threw |-> FALSE, ret |-> exchanges[name], used |-> name]
               ELSE [name |-> name, threw |-> TRUE, ret |-> "none", used |-> last.used]
  /\ UNCHANGED <<config, exchanges, base, fields, calls, returned>>

\* a faulty use that hands the calls in flight over to the exchange it selects
UseRetargets(name) ==
  /\ Quiet
  /\ IF name \notin DOMAIN exchanges
       THEN /\ last' = [name |-> name, threw |-> TRUE, ret |-> "none", used |-> last.used]
            /\ UNCHANGED <<currentExchange, calls>>
       ELSE /\ currentExchange' = name
            /\ last' = [name |-> name, threw |-> FALSE, ret |-> exchanges[name],
                        used |-> name]
            /\ calls' = [c \in DOMAIN calls |->
                           IF calls[c].st.pc = "fetch" THEN [calls[c] EXCEPT !.ex = name]
                           ELSE calls[c]]
  /\ UNCHANGED <<config, exchanges, base, fields, returned>>

\* CurrencyService.use(name)
Use(name) ==
  /\ Quiet
  /\ IF name \notin DOMAIN exchanges
       THEN /\ last' = [name |-> name, threw |-> TRUE, ret |-> "none", used |-> last.used]
            /\ UNCHANGED currentExchange
       ELSE /\ currentExchange' = name
            /\ last' = [name |-> name, threw |-> FALSE, ret |-> exchanges[name],
                        used |-> name]
  /\ UNCHANGED <<config, exchanges, base, fields, calls, returned>>

\* the record of a call: the method op of exchange ex with params p, how
\* far it got (st), how many fetches it issued, the response it was last
\* resumed with (resp) and all of them in order (resps), and what the
\* service did to reach it (via; used: the latest successful use; active:
\* the pointer when the call began)
Call(via, ex, op, p, st) ==
  [via |-> via, ex |-> ex, op |-> op, p |-> p, st |-> st,
   fetches |-> IF st.pc = "fetch" THEN 1 ELSE 0,
   resp |-> Undefined, resps |-> <<>>, used |-> last.used, baseAtStart |-> base[ex],
   active |-> currentExchange]

\* a service call that failed before reaching an exchange
FailedCall(op, p, e) ==
  [via |-> "service", ex |-> "none", op |-> op, p |-> p, st |-> Rejected(e),
   fetches |-> 0, resp |-> Undefined, resps |-> <<>>, used |-> last.used,
   baseAtStart |-> "none", active |-> currentExchange]

\* CurrencyService.convert(params), by caller c
SvcConvert(c, p) ==
  /\ Free(c) /\ Quiet
  /\ LET a == getActiveExchange(config, exchanges, currentExchange)
     IN  calls' = [calls EXCEPT ![c] =
                     IF a.threw THEN FailedCall("convert", p, a.val)
                     ELSE Call("service", a.val, "convert", p,
                               MethodStart(a.val, "convert", p, base[a.val]))]
  /\ UNCHANGED <<config, exchanges, currentExchange, base, fields, last, returned>>

\* a faulty getExchangeRates that sets the base of every exchange
SvcGetExchangeRatesAllBases(c, p) ==
  /\ Free(c) /\ Quiet
  /\ LET a == getActiveExchange(config, exchanges, currentExchange)
     IN  IF a.threw
           THEN /\ calls' = [calls EXCEPT ![c] = FailedCall("latestRates", p, a.val)]
                /\ UNCHANGED base
           ELSE LET b == IF "base" \in DOMAIN p THEN p.base ELSE base[a.val]
                IN  /\ base' = IF "base" \in DOMAIN p THEN [e \in ExchangeNames |-> b]
                                ELSE base
                    /\ calls' = [calls EXCEPT ![c] =
                                   [Call("service", a.val, "latestRates", p,
                                         MethodStart(a.val, "latestRates", p, b))
                                      EXCEPT !.baseAtStart = b]]
  /\ UNCHANGED <<config, exchanges, currentExchange, fields, last, returned>>

\* CurrencyService.getExchangeRates(params), by caller c
SvcGetExchangeRates(c, p) ==
  /\ Free(c) /\ Quiet
  /\ LET a == getActiveExchange(config, exchanges, currentExchange)
     IN  IF a.threw
           THEN /\ calls' = [calls EXCEPT ![c] = FailedCall("latestRates", p, a.val)]
                /\ UNCHANGED base
           ELSE LET b == IF "base" \in DOMAIN p THEN p.base ELSE base[a.val]
                IN  /\ base' = [base EXCEPT ![a.val] = b]
                    /\ calls' = [calls EXCEPT ![c] =
                                   [Call("service", a.val, "latestRates", p,
                                         MethodStart(a.val, "latestRates", p, b))
                                      EXCEPT !.baseAtStart = b]]
  /\ UNCHANGED <<config, exchanges, currentExchange, fields, last, returned>>

\* a faulty convertAmount that passes its currencies the wrong way round
SvcConvertAmountSwapped(c, amount, from, to) ==
  SvcConvert(c, [amount |-> amount, from |-> to, to |-> from])

\* CurrencyService.convertAmount(amount, from, to): this.convert({amount, from, to})
SvcConvertAmount(c, amount, from, to) ==
  SvcConvert(c, [amount |-> amount, from |-> from, to |-> to])

\* CurrencyService.getRates(base, symbols): this.getExchangeRates({base,
\* symbols}).  args holds the arguments that are given; an argument left
\* out is an undefined member of the object, which getExchangeRates and
\* both latestRates read as they read a member that is not there
SvcGetRates(c, args) == SvcGetExchangeRates(c, args)

\* a method of exchange ex called on the object itself, by caller c
ExCall(c, ex, op, p) ==
  /\ Free(c) /\ Quiet
  /\ calls' = [calls EXCEPT ![c] =
                 Call("direct", ex, op, p, MethodStart(ex, op, p, base[ex]))]
  /\ UNCHANGED <<config, exchanges, currentExchange, base, fields, last, returned>>

\* a faulty setBase that writes a base shared by every exchange
SetBaseShared(ex, currency) ==
  /\ Quiet
  /\ base' = [e \in ExchangeNames |-> currency]
  /\ returned' = Returned("setBase", ex, [currency |-> currency], ex)
  /\ UNCHANGED <<config, exchanges, currentExchange, fields, calls, last>>

\* BaseCurrencyExchange.setBase(currency) on exchange ex
SetBase(ex, currency) ==
  /\ Quiet
  /\ base' = [base EXCEPT ![ex] = currency]
  /\ returned' = Returned("setBase", ex, [currency |-> currency], ex)
  /\ UNCHANGED <<config, exchanges, currentExchange, fields, calls, last>>

\* setKey(key) on exchange ex: FixerProvider.setKey stores the key, the
\* default of BaseCurrencyExchange does nothing; both return this
SetKey(ex, key) ==
  /\ Quiet
  /\ fields' = IF ex = "fixer" THEN [fields EXCEPT !["fixer"].accessKey = key] ELSE fields
  /\ returned' = Returned("setKey", ex, [key |-> key], ex)
  /\ UNCHANGED <<config, exchanges, currentExchange, base, calls, last>>

\* round(value, precision) on exchange ex
Round(ex, value, precision) ==
  /\ Quiet
  /\ returned' = Returned("round", ex, [value |-> value, precision |-> precision],
                          round(value, precision))
  /\ UNCHANGED <<config, exchanges, currentExchange, base, fields, calls, last>>

\* CurrencyService.round(value, precision = 2)
SvcRound(value, precision) ==
  /\ Quiet
  /\ LET a == getActiveExchange(config, exchanges, currentExchange)
         args == [value |-> value, precision |-> precision]
     IN  returned' =
           IF a.threw THEN Thrown("round", "service", args, a.val)
           ELSE Returned("round", "service", args,
                         round(value, IF precision = Undefined THEN Num(2) ELSE precision))
  /\ UNCHANGED <<config, exchanges, currentExchange, base, fields, calls, last>>

\* the configs exchanges.fixer may be given: the access key missing, empty
\* or set, the base and the timeout missing or set
FixerConfigs ==
  LET full == [accessKey |-> S("key1"), base |-> "GBP", timeout |-> 1000]
      some == {[f \in D |-> full[f]] : D \in SUBSET {"accessKey", "base", "timeout"}}
  IN  some \cup {[accessKey |-> S("")], [accessKey |-> S(""), base |-> "GBP"]}

\* the constructor of the Fixer exchange on config: name 'fixer', the base
\* 'EUR' when the config gives none
FixerExchange(cfg) ==
  [name |-> "fixer",
   accessKey |-> cfg.accessKey,
   base |-> IF "base" \in DOMAIN cfg THEN cfg.base ELSE "EUR",
   timeout |-> IF "timeout" \in DOMAIN cfg THEN cfg.timeout ELSE 5000]

\* what the factories hand to the constructor: the base 'USD' and the
\* timeout 5000, each overwritten by the config's own
FactoryDefaults(cfg) ==
  [f \in DOMAIN cfg \cup {"base", "timeout"} |->
     IF f \in DOMAIN cfg THEN cfg[f] ELSE IF f = "base" THEN "USD" ELSE 5000]

\* a faulty exchanges.fixer that constructs the exchange whatever the key
fixerUnchecked(cfg) ==
  Return(FixerExchange(FactoryDefaults(
           IF "accessKey" \in DOMAIN cfg THEN cfg
           ELSE [f \in DOMAIN cfg \cup {"accessKey"} |->
                   IF f = "accessKey" THEN Undefined ELSE cfg[f]])))

\* exchanges.fixer(config)
fixer(cfg) ==
  IF ~("accessKey" \in DOMAIN cfg /\ Truthy(cfg.accessKey))
  THEN Throw("Fixer exchange requires an accessKey")
  ELSE Return(FixerExchange(FactoryDefaults(cfg)))

\* a caller calls exchanges.fixer(cfg): nothing of the service changes
ExchangesFixer(cfg) ==
  /\ Quiet
  /\ LET r == fixer(cfg)
     IN  returned' = IF r.threw THEN Thrown("fixer", "exchanges", cfg, r.val)
                     ELSE Returned("fixer", "exchanges", cfg, r.val)
  /\ UNCHANGED <<config, exchanges, currentExchange, base, fields, calls, last>>

\* the caller takes what the synchronous call returned
Take ==
  /\ ~Taken
  /\ returned' = Nothing
  /\ UNCHANGED <<config, exchanges, currentExchange, base, fields, calls, last>>

\* a faulty fetch without a timeout, against a Fixer upstream that never
\* answers: only Google's fetches settle
RespondFixerNever(c, resp) ==
  /\ Taken
  /\ calls[c].st.pc = "fetch"
  /\ calls[c].ex = "google"
  /\ LET call == calls[c]
         st == MethodResume(call.ex, call.op, call.p, call.st.k, base[call.ex], resp)
     IN  calls' = [calls EXCEPT ![c] =
                     [call EXCEPT !.st = st, !.resp = resp, !.resps = Append(@, resp),
                                  !.fetches = IF st.pc = "fetch" THEN @ + 1 ELSE @]]
  /\ UNCHANGED <<config, exchanges, currentExchange, base, fields, last, returned>>

\* the upstream settles the fetch of caller c's call with resp, and the
\* method runs on to its next fetch or its end
Respond(c, resp) ==
  /\ Taken
  /\ calls[c].st.pc = "fetch"
  /\ LET call == calls[c]
         st == MethodResume(call.ex, call.op, call.p, call.st.k, base[call.ex], resp)
     IN  calls' = [calls EXCEPT ![c] =
                     [call EXCEPT !.st = st, !.resp = resp, !.resps = Append(@, resp),
                                  !.fetches = IF st.pc = "fetch" THEN @ + 1 ELSE @]]
  /\ UNCHANGED <<config, exchanges, currentExchange, base, fields, last, returned>>

\* caller c takes the result of its settled call
Settle(c) ==
  /\ calls[c].st.pc = "done"
  /\ calls' = [calls EXCEPT ![c] = Idle]
  /\ UNCHANGED <<config, exchanges, currentExchange, base, fields, last, returned>>

\* -------------------------------------------------------------- inputs
\* ConvertParams
ConvertParams == [amount : Amounts, from : Codes, to : Codes]

\* the arguments of getConvertRate(from, to)
RatePairs == [from : Codes, to : Codes]

\* ExchangeRatesParams; base and symbols are optional
RatesParams ==
  {<<>>} \cup [symbols : SymbolLists] \cup [base : Codes] \cup [base : Codes, symbols : SymbolLists]

\* the params of latestRates called on an exchange object: it reads symbols
\* only; the lists are over USD and EUR, GBP being asked for through the default
SymbolsParams ==
  {<<>>} \cup {p \in [symbols : SymbolLists] : \A i \in DOMAIN p.symbols : p.symbols[i] # "GBP"}

\* what the service's callers ask for
ServiceConvertParams == {p \in ConvertParams : p.from = "USD"}
ServiceRatesParams ==
  {p \in RatesParams :
     "symbols" \in DOMAIN p => \A i \in DOMAIN p.symbols : p.symbols[i] # "GBP"}

\* what the callers of the convenience methods pass: conversions from EUR,
\* and rates of GBP
ConvertAmountArgs == {p \in ConvertParams : p.from = "EUR"}
GetRatesArgs ==
  {p \in RatesParams : "symbols" \in DOMAIN p /\ p.symbols = <<"GBP">>}

\* the values rounded: 123.456, 1.23456, halves and eighths of either sign,
\* and whole numbers
RoundValues ==
  {Rat(123456, 1000), Rat(123456, 100000), Rat(5, 2), Rat(-5, 2), Rat(1, 8), Rat(-3, 8),
   Rat(-123456, 1000), Num(0), Num(7)}

\* the precisions: left out, or 0 .. 3
Precisions == {Undefined} \cup {Num(k) : k \in 0 .. 3}

\* the rates the Fixer upstream reports: 0, 1/2 and 1 .. MaxRate
RateValues == {Num(0), Rat(1, 2)} \cup {Num(n) : n \in 1 .. MaxRate}

\* the rate tables: any codes, any rates
RateTables == UNION {[D -> RateValues] : D \in SUBSET Codes}

\* the bodies the Google upstream may send, by what the patterns find in them
GoogleBodies ==
  {Html(NoMatch, NoMatch, NoMatch, NoMatch)}
    \cup {Html(Match(Undefined, t), NoMatch, NoMatch, NoMatch) : t \in Captures}
    \cup {Html(NoMatch, Match(Text(<<"2">>), Undefined), NoMatch, NoMatch),
          Html(NoMatch, NoMatch, Match(Text(<<"2">>), Undefined), NoMatch),
          Html(NoMatch, NoMatch, NoMatch, Match(Text(<<"2">>), Undefined))}

Failures == {NetworkError, Timeout, HttpError}

\* the error objects the Fixer upstream may report
UpstreamErrors ==
  {Undefined,
   ErrorObject(Num(101), S("invalid access key"), S("invalid_access_key")),
   ErrorObject(Num(101), Undefined, Undefined)}

\* the bodies of /latest
LatestBodies ==
  {Unparseable, Null, LatestData(JsTrue, Undefined, Undefined)}
    \cup {LatestData(JsFalse, Undefined, e) : e \in UpstreamErrors}
    \cup {LatestData(JsTrue, RatesObject(r), Undefined) : r \in RateTables}

\* the bodies of /convert for a request
ConvertBodies(req) ==
  {Unparseable, Null,
   ConvertData(JsTrue, Undefined, Undefined, Undefined),
   ConvertData(JsTrue, Null, InfoObject(Undefined), Undefined),
   ConvertData(JsTrue, req.amount, Undefined, Undefined)}
    \cup {ConvertData(JsFalse, Undefined, Undefined, e) : e \in UpstreamErrors}
    \cup {ConvertData(JsTrue, RatMul(r, req.amount), InfoObject(r), Undefined) :
            r \in RateValues}

\* every way the upstream may settle the fetch of request req
Responses(req) ==
  Failures \cup
    {Ok(b) : b \in CASE req.api = "google" -> GoogleBodies
                     [] req.api = "fixer/latest" -> LatestBodies
                     [] req.api = "fixer/convert" -> ConvertBodies(req)}

\* the responses the service specification lets the upstream give: the
\* failures, a body without a rate and bodies with one
ServiceResponses(req) ==
  Failures \cup
    {Ok(b) : b \in CASE req.api = "google" ->
                         {Html(NoMatch, NoMatch, NoMatch, NoMatch),
                          Html(Match(Undefined, Text(<<"2">>)), NoMatch, NoMatch, NoMatch)}
                     [] req.api = "fixer/latest" ->
                         {Unparseable,
                          LatestData(JsFalse, Undefined, ErrorObject(Num(101), Undefined, Undefined)),
                          LatestData(JsTrue, RatesObject([c \in Codes |-> Rat(1, 2)]), Undefined)}
                     [] req.api = "fixer/convert" ->
                         {Unparseable,
                          ConvertData(JsFalse, Undefined, Undefined, Undefined),
                          ConvertData(JsTrue, req.amount, InfoObject(One), Undefined)}}

\* -------------------------------------------------------- specifications
UseStep == \E name \in NameInputs : Use(name)
SvcConvertStep == \E c \in Callers, p \in ServiceConvertParams : SvcConvert(c, p)
SvcGetExchangeRatesStep ==
  \E c \in Callers, p \in ServiceRatesParams : SvcGetExchangeRates(c, p)
ServiceRespondStep == \E c \in Callers :
                        /\ calls[c].st.pc = "fetch"
                        /\ \E resp \in ServiceResponses(calls[c].st.req) : Respond(c, resp)
RespondStep == \E c \in Callers :
                 /\ calls[c].st.pc = "fetch"
                 /\ \E resp \in Responses(calls[c].st.req) : Respond(c, resp)

SettleStep == \E c \in Callers : Settle(c)

SvcConvertAmountStep == \E c \in Callers, p \in ConvertAmountArgs :
                          SvcConvertAmount(c, p.amount, p.from, p.to)
SvcGetRatesStep == \E c \in Callers, args \in GetRatesArgs : SvcGetRates(c, args)

\* the service and its callers
Next ==
  UseStep \/ SvcConvertStep \/ SvcGetExchangeRatesStep \/ SvcConvertAmountStep
    \/ SvcGetRatesStep \/ ServiceRespondStep \/ SettleStep

Spec == Init /\ [][Next]_vars

\* the service under the assumption that every fetch settles: fetch is
\* given AbortSignal.timeout(this.timeout), so a fetch that gets no response
\* is settled by its timeout; the fetch of each pending call is answered
\* or times out in the end
Responds(c) ==
  /\ calls[c].st.pc = "fetch"
  /\ \E resp \in ServiceResponses(calls[c].st.req) : Respond(c, resp)

SpecLive == Init /\ [][Next]_vars /\ \A c \in Callers : WF_vars(Responds(c))

\* the exchange objects used directly: one service configuration, no use()
InitExchange ==
  Construct([default |-> "google",
             exchanges |-> [name \in ExchangeNames |-> ConfigEntries[name]]])

ConvertStep == \E c \in Callers, ex \in ExchangeNames, p \in ConvertParams :
                 ExCall(c, ex, "convert", p)
LatestRatesStep == \E c \in Callers, ex \in ExchangeNames, p \in SymbolsParams :
                     ExCall(c, ex, "latestRates", p)
GetConvertRateStep == \E c \in Callers, ex \in ExchangeNames, p \in RatePairs :
                        ExCall(c, ex, "getConvertRate", p)
SetBaseStep == \E ex \in ExchangeNames, currency \in Codes : SetBase(ex, currency)

TakeStep == Take

NextExchange ==
  ConvertStep \/ LatestRatesStep \/ GetConvertRateStep \/ SetBaseStep \/ TakeStep
    \/ RespondStep \/ SettleStep

SpecExchange == InitExchange /\ [][NextExchange]_vars

\* the synchronous methods: use, setBase, setKey and round, on a service of
\* any configuration and on the exchange objects
SetKeyStep == \E ex \in ExchangeNames, key \in Keys : SetKey(ex, key)
RoundStep == \E ex \in ExchangeNames, value \in RoundValues, precision \in Precisions :
               Round(ex, value, precision)
SvcRoundStep == \E value \in RoundValues, precision \in Precisions : SvcRound(value, precision)

ExchangesFixerStep == \E cfg \in FixerConfigs : ExchangesFixer(cfg)

NextObject ==
  UseStep \/ SetBaseStep \/ SetKeyStep \/ RoundStep \/ SvcRoundStep \/ ExchangesFixerStep
    \/ TakeStep

SpecObject == Init /\ [][NextObject]_vars

\* ------------------------------------------------------------ properties
\* the calls that reached an exchange method op and have settled
Settled(c, op) == calls[c].st.pc = "done" /\ calls[c].ex # "none" /\ calls[c].op = op

\* C1: convert with from = to, on either exchange and whatever its base,
\* returns at once with success, result = amount and rate 1, and never
\* fetches.
C1_SameCurrencyShortCircuit ==
  \A c \in Callers :
    (calls[c].st.pc # "idle" /\ calls[c].ex # "none" /\ calls[c].op = "convert"
       /\ calls[c].p.from = calls[c].p.to)
      => /\ calls[c].st.pc = "done"
         /\ ~calls[c].st.threw
         /\ calls[c].fetches = 0
         /\ calls[c].st.ret.success
         /\ calls[c].st.ret.result = calls[c].p.amount
         /\ calls[c].st.ret.info.rate = One

C1_Witness ==
  \E c \in Callers :
    /\ Settled(c, "convert") /\ calls[c].ex = "fixer"
    /\ calls[c].p.from = "GBP" /\ calls[c].p.to = "GBP" /\ calls[c].p.amount = Num(-1)
    /\ base["fixer"] = "USD"
    /\ calls[c].st.ret.result = Num(-1)

\* C2: every ConversionResult convert returns has success exactly when it
\* has no error and a defined result, and its query echoes the request.
C2_ConversionEnvelope ==
  \A c \in Callers :
    (Settled(c, "convert") /\ ~calls[c].st.threw)
      => LET r == calls[c].st.ret
         IN  /\ r.success <=> (r.error = Undefined /\ r.result # Undefined)
             /\ r.query = [from |-> calls[c].p.from, to |-> calls[c].p.to,
                           amount |-> calls[c].p.amount]

\* the upstream reports success and sends no result
C2_Witness ==
  \E c \in Callers :
    /\ Settled(c, "convert") /\ calls[c].ex = "fixer"
    /\ calls[c].resp = Ok(ConvertData(JsTrue, Undefined, Undefined, Undefined))
    /\ ~calls[c].st.ret.success /\ calls[c].st.ret.error = Undefined

\* C3: every ExchangeRatesResult latestRates returns has success exactly
\* when it has no error and at least one rate.
C3_RatesEnvelope ==
  \A c \in Callers :
    (Settled(c, "latestRates") /\ ~calls[c].st.threw)
      => LET r == calls[c].st.ret
         IN  r.success <=> (r.error = Undefined /\ DOMAIN r.rates # {})

\* no symbol of a Google call yielded a rate
C3_Witness ==
  \E c \in Callers :
    /\ Settled(c, "latestRates") /\ calls[c].ex = "google"
    /\ calls[c].fetches = 2
    /\ ~calls[c].st.ret.success /\ calls[c].st.ret.error = Undefined
    /\ DOMAIN calls[c].st.ret.rates = {}

\* the response is a failure of the upstream: no response, a timeout, a
\* status that is not OK, or a body that cannot be parsed
UpstreamFailed(resp) ==
  \/ resp.kind \in {"neterr", "timeout", "http"}
  \/ resp.kind = "ok" /\ resp.body \in {Unparseable, Html(NoMatch, NoMatch, NoMatch, NoMatch)}

\* C4 (as claimed): convert and latestRates never reject, and every upstream
\* failure appears as the error field of the envelope.
C4_FailuresAsError ==
  \A c \in Callers :
    (Settled(c, "convert") \/ Settled(c, "latestRates"))
      => /\ ~calls[c].st.threw
         /\ (calls[c].resp # Undefined /\ UpstreamFailed(calls[c].resp))
              => calls[c].st.ret.error # Undefined

\* the half of C4 the code keeps: no call of an exchange method rejects
NeverRejects ==
  \A c \in Callers :
    (calls[c].st.pc = "done" /\ calls[c].via = "direct") => ~calls[c].st.threw

\* C5: a service call made after use(y) succeeded last is the one call of
\* y's method, of no other exchange's, and settles with what y's method
\* returns for the params and the upstream's response.
C5_RoutedToLastUsed ==
  \A c \in Callers :
    (calls[c].st.pc # "idle" /\ calls[c].via = "service" /\ calls[c].used # "none")
      => /\ calls[c].ex = calls[c].used
         /\ calls[c].st.pc = "done" => ~calls[c].st.threw
         /\ (calls[c].st.pc = "done" /\ calls[c].fetches = 0)
              => calls[c].st = MethodStart(calls[c].used, calls[c].op, calls[c].p,
                                           calls[c].baseAtStart)
         /\ (calls[c].st.pc = "done" /\ calls[c].fetches = 1 /\ calls[c].op = "convert")
              => calls[c].st = MethodResume(calls[c].used, "convert", calls[c].p, Undefined,
                                            calls[c].baseAtStart, calls[c].resp)

\* the default is google, use("fixer") came last, and Fixer served the call
C5_Witness ==
  \E c \in Callers :
    /\ config.default = "google" /\ last.used = "fixer"
    /\ calls[c].st.pc = "done" /\ calls[c].via = "service" /\ calls[c].op = "convert"
    /\ calls[c].ex = "fixer" /\ calls[c].fetches = 1
    /\ calls[c].st.ret.success

\* C6 (as claimed): the current exchange is always a key of the registry.
C6_ActiveIsRegistered ==
  getCurrentExchange(currentExchange) \in getAvailableExchanges(exchanges)

\* C7: a use() of an unregistered name throws and changes neither the
\* pointer, the registry nor any call; a use() of a registered name sets the
\* pointer to it and returns its instance.
C7_Use ==
  [][last' # last =>
       /\ last'.threw <=> last'.name \notin DOMAIN exchanges
       /\ exchanges' = exchanges /\ calls' = calls
       /\ IF last'.threw
            THEN currentExchange' = currentExchange
            ELSE currentExchange' = last'.name /\ last'.ret = exchanges[last'.name]]_vars

\* use("other") threw after use("fixer") had moved the pointer
C7_Witness ==
  /\ last.name = "other" /\ last.threw /\ last.used = "fixer"
  /\ currentExchange = "fixer" /\ config.default = "google"

\* C8 (as claimed): no service exists whose config.default is not a key of
\* config.exchanges, such a construction having thrown.
C8_DefaultIsConfigured == config.default \in DOMAIN config.exchanges

\* C9: the registry holds exactly the configured names, each with the
\* instance configured under it, in every state.
C9_RegistryIsConfig ==
  /\ getAvailableExchanges(exchanges) = DOMAIN config.exchanges
  /\ \A name \in DOMAIN exchanges :
       exchanges[name] = IF config.exchanges[name].factory
                           THEN config.exchanges[name].returns
                           ELSE config.exchanges[name].instance

\* both exchanges are configured, and the pointer has left the default
C9_Witness ==
  /\ DOMAIN config.exchanges = {"google", "fixer"}
  /\ config.default = "google" /\ currentExchange = "fixer"
  /\ \E c \in Callers : calls[c].st.pc = "done" /\ calls[c].op = "latestRates"
  /\ getAvailableExchanges(exchanges) = {"google", "fixer"}

\* the rate table of a /latest response that reports success
TableOf(resp) == resp.body.rates.m

HasTable(resp) ==
  /\ resp.kind = "ok" /\ resp.body \notin {Unparseable, Null}
  /\ resp.body.success = JsTrue /\ resp.body.rates # Undefined

Present(r, code) == code \in DOMAIN r /\ r[code].n # 0

\* C10: Fixer's getConvertRate(from, to), from # to, with base B and the
\* upstream table r, returns r[to] when from = B, 1 / r[from] when to = B
\* and r[to] / r[from] otherwise, when the entries it needs are there and
\* not zero.
C10_ConvertRate ==
  \A c \in Callers :
    (Settled(c, "getConvertRate") /\ calls[c].ex = "fixer"
       /\ calls[c].p.from # calls[c].p.to /\ HasTable(calls[c].resp))
      => LET r == TableOf(calls[c].resp)
             from == calls[c].p.from
             to == calls[c].p.to
             B == calls[c].baseAtStart
             rate == calls[c].st.ret
         IN  /\ (from = B /\ Present(r, to)) => rate = r[to]
             /\ (to = B /\ Present(r, from)) => rate = Rat(r[from].d, r[from].n)
             /\ (from # B /\ to # B /\ Present(r, from) /\ Present(r, to))
                  => rate = Rat(r[to].n * r[from].d, r[to].d * r[from].n)

\* the cross rate GBP -> USD with base EUR, from GBP at 1/2 and USD at 1
C10_Witness ==
  \E c \in Callers :
    /\ Settled(c, "getConvertRate") /\ calls[c].ex = "fixer"
    /\ calls[c].p = [from |-> "GBP", to |-> "USD"] /\ calls[c].baseAtStart = "EUR"
    /\ HasTable(calls[c].resp)
    /\ Lookup(TableOf(calls[c].resp), "GBP") = Rat(1, 2)
    /\ Lookup(TableOf(calls[c].resp), "USD") = One
    /\ calls[c].st.ret = Num(2)

\* the table getConvertRate reads: the upstream's when it reports success
\* with one, the empty table otherwise
TableRead(resp) == IF HasTable(resp) THEN TableOf(resp) ELSE EmptyRates

\* C11: Fixer's getConvertRate(from, to), from # to, returns undefined and
\* does not throw when to is the base and r[from] is zero or absent, and
\* when neither is the base and r[from] or r[to] is zero or absent, a failed
\* rates fetch being an empty table; no result is Infinity or NaN.
C11_NoDivisionByZero ==
  \A c \in Callers :
    (Settled(c, "getConvertRate") /\ calls[c].ex = "fixer" /\ calls[c].p.from # calls[c].p.to)
      => LET r == TableRead(calls[c].resp)
             from == calls[c].p.from
             to == calls[c].p.to
             B == calls[c].baseAtStart
         IN  /\ ~calls[c].st.threw
             /\ calls[c].st.ret \notin {Infinity, NaN}
             /\ (to = B /\ ~Present(r, from)) => calls[c].st.ret = Undefined
             /\ (from # B /\ to # B /\ (~Present(r, from) \/ ~Present(r, to)))
                  => calls[c].st.ret = Undefined

\* USD -> EUR with base EUR, the upstream reporting USD at 0
C11_Witness ==
  \E c \in Callers :
    /\ Settled(c, "getConvertRate") /\ calls[c].ex = "fixer"
    /\ calls[c].p = [from |-> "USD", to |-> "EUR"] /\ calls[c].baseAtStart = "EUR"
    /\ HasTable(calls[c].resp) /\ Lookup(TableOf(calls[c].resp), "USD") = Num(0)
    /\ calls[c].st.ret = Undefined

\* getConvertRate(from, to) of Fixer with base B, the upstream answering
\* resp: the value the method settles with
FixerRate(B, resp, from, to) ==
  LET p == [from |-> from, to |-> to]
      st == FixerGetConvertRateStart(p, B)
  IN  IF st.pc = "done" THEN st.ret
      ELSE FixerGetConvertRateResume(p, st.k, B, resp).ret

\* the upstream's table holds every code at a positive rate
AllPositive(resp) ==
  /\ HasTable(resp) /\ DOMAIN TableOf(resp) = Codes
  /\ \A code \in Codes : TableOf(resp)[code].n > 0

NoRate(resp) ==
  \/ resp.kind \in {"neterr", "timeout", "http"}
  \/ resp.kind = "ok" /\ resp.body = Html(NoMatch, NoMatch, NoMatch, NoMatch)

\* C13: Google's convert with from # to, the upstream giving no rate,
\* resolves to success = false, no result and error.type RATE_NOT_FOUND.
C13_RateNotFound ==
  \A c \in Callers :
    (Settled(c, "convert") /\ calls[c].ex = "google"
       /\ calls[c].p.from # calls[c].p.to /\ NoRate(calls[c].resp))
      => /\ ~calls[c].st.threw
         /\ ~calls[c].st.ret.success
         /\ calls[c].st.ret.result = Undefined
         /\ calls[c].st.ret.error # Undefined
         /\ calls[c].st.ret.error.type = S("RATE_NOT_FOUND")

\* the fetch for USD -> EUR timed out
C13_Witness ==
  \E c \in Callers :
    /\ Settled(c, "convert") /\ calls[c].ex = "google"
    /\ calls[c].p.from = "USD" /\ calls[c].p.to = "EUR" /\ calls[c].resp = Timeout
    /\ calls[c].st.ret.error.type = S("RATE_NOT_FOUND")

\* C16 (as claimed): every ConversionResult with success has info.rate a
\* number, on both exchanges, whatever the upstream sends.
C16_RateDefinedOnSuccess ==
  \A c \in Callers :
    (Settled(c, "convert") /\ ~calls[c].st.threw /\ calls[c].st.ret.success)
      => calls[c].st.ret.info.rate.t = "number"

\* the part of C16 the code keeps: Google's successes carry the rate
GoogleRateDefinedOnSuccess ==
  \A c \in Callers :
    (Settled(c, "convert") /\ calls[c].ex = "google" /\ calls[c].st.ret.success)
      => calls[c].st.ret.info.rate.t = "number"

\* the fetch failed before any body was read
TransportFailed(resp) == resp.kind \in {"neterr", "timeout", "http"}

\* C17 (as claimed): a transport failure of Fixer's fetch gives success =
\* false and error.type FETCH_ERROR, from convert and from latestRates.
C17_FetchError ==
  \A c \in Callers :
    ((Settled(c, "convert") \/ Settled(c, "latestRates")) /\ calls[c].ex = "fixer"
       /\ calls[c].resp # Undefined /\ TransportFailed(calls[c].resp))
      => /\ ~calls[c].st.ret.success
         /\ calls[c].st.ret.error # Undefined
         /\ calls[c].st.ret.error.type = S("FETCH_ERROR")

\* the part of C17 the code keeps: latestRates reports FETCH_ERROR
LatestRatesFetchError ==
  \A c \in Callers :
    (Settled(c, "latestRates") /\ calls[c].ex = "fixer"
       /\ calls[c].resp # Undefined /\ TransportFailed(calls[c].resp))
      => /\ ~calls[c].st.ret.success
         /\ calls[c].st.ret.error # Undefined
         /\ calls[c].st.ret.error.type = S("FETCH_ERROR")

\* the symbols of a list that are not the base, in order: the ones fetched
NonBase(syms, b) == SelectSeq(syms, LAMBDA code : code # b)

\* a Google latestRates call of caller c, started and not yet taken
GoogleRatesCall(c) ==
  calls[c].st.pc # "idle" /\ calls[c].ex = "google" /\ calls[c].op = "latestRates"

\* C14: Google's latestRates never fetches a symbol equal to the base and
\* gives it the rate 1: the fetches of a finished call are those of the
\* other symbols; getExchangeRates({base: c, symbols: [c]}) finishes
\* without a fetch with success, base c and rates {c: 1}.
C14_BaseSymbolIsOne ==
  \A c \in Callers :
    GoogleRatesCall(c)
      => LET syms == GoogleSymbols(calls[c].p)
             b == calls[c].baseAtStart
             st == calls[c].st
         IN  /\ st.pc = "fetch" => (st.req.from = b /\ st.req.to # b)
             /\ st.pc = "done"
                  => /\ ~st.threw
                     /\ calls[c].fetches = Len(NonBase(syms, b))
                     /\ (\E i \in DOMAIN syms : syms[i] = b) => Lookup(st.ret.rates, b) = One
             /\ ("base" \in DOMAIN calls[c].p /\ syms = <<calls[c].p.base>>)
                  => /\ st.pc = "done" /\ calls[c].fetches = 0
                     /\ st.ret.success /\ st.ret.base = calls[c].p.base
                     /\ st.ret.rates = Store(EmptyRates, calls[c].p.base, One)

\* getExchangeRates({base: "EUR", symbols: ["EUR"]}) on Google, whose base
\* was USD, has finished without a fetch
C14_Witness ==
  \E c \in Callers :
    /\ GoogleRatesCall(c) /\ calls[c].via = "service"
    /\ calls[c].p = [base |-> "EUR", symbols |-> <<"EUR">>]
    /\ calls[c].st.pc = "done" /\ calls[c].fetches = 0
    /\ Lookup(calls[c].st.ret.rates, "EUR") = One

\* the symbols whose fetch gave a rate, resps[j] answering the j-th fetch
Obtained(syms, b, resps) ==
  {NonBase(syms, b)[j] : j \in {i \in DOMAIN resps : getRate(resps[i]).val # Undefined}}

\* C15: a finished Google latestRates over symbols S has fetched every
\* symbol that is not the base, whatever the earlier fetches gave; its
\* rates hold exactly the symbols equal to the base and those whose fetch
\* gave a rate, all of them in S; success is true exactly when there is one.
C15_PerSymbolTolerance ==
  \A c \in Callers :
    (GoogleRatesCall(c) /\ calls[c].st.pc = "done")
      => LET syms == GoogleSymbols(calls[c].p)
             b == calls[c].baseAtStart
             ret == calls[c].st.ret
         IN  /\ ~calls[c].st.threw
             /\ Len(calls[c].resps) = Len(NonBase(syms, b))
             /\ DOMAIN ret.rates =
                  {syms[i] : i \in {j \in DOMAIN syms : syms[j] = b}}
                    \cup Obtained(syms, b, calls[c].resps)
             /\ DOMAIN ret.rates \subseteq {syms[i] : i \in DOMAIN syms}
             /\ ret.success <=> DOMAIN ret.rates # {}
             /\ ret.error = Undefined

\* of the default symbols with base USD, EUR's fetch failed and GBP's gave 2
C15_Witness ==
  \E c \in Callers :
    /\ GoogleRatesCall(c) /\ calls[c].st.pc = "done"
    /\ calls[c].p = <<>> /\ calls[c].baseAtStart = "USD"
    /\ calls[c].resps =
         <<NetworkError, Ok(Html(Match(Undefined, Text(<<"2">>)), NoMatch, NoMatch, NoMatch))>>
    /\ calls[c].st.ret.success
    /\ DOMAIN calls[c].st.ret.rates = {"USD", "GBP"}

\* C18: a setBase(c) step sets the base of its exchange to c and returns
\* that exchange; a setKey step returns its exchange and, on Fixer, stores
\* the key; neither changes anything else: the other exchange's base, the
\* names, the timeouts, the registry, the pointer, the calls.
C18_SettersFrame ==
  [][(returned' # Nothing /\ returned'.op \in {"setBase", "setKey"})
       => LET r == returned'
              ex == r.on
          IN  /\ ~r.threw /\ r.ret = ex
              /\ UNCHANGED <<config, exchanges, currentExchange, calls, last>>
              /\ \A e \in ExchangeNames \ {ex} : base'[e] = base[e] /\ fields'[e] = fields[e]
              /\ fields'[ex].name = fields[ex].name
              /\ fields'[ex].timeout = fields[ex].timeout
              /\ r.op = "setBase" => (base'[ex] = r.args.currency /\ fields'[ex] = fields[ex])
              /\ r.op = "setKey" => base'[ex] = base[ex]
              /\ (r.op = "setKey" /\ ex = "google") => fields'[ex] = fields[ex]
              /\ (r.op = "setKey" /\ ex = "fixer") => fields'[ex].accessKey = r.args.key]_vars

\* setKey("key1") on Fixer returned Fixer after setBase had moved Google's
\* base and use("fixer") the pointer
C18_Witness ==
  /\ returned.op = "setKey" /\ returned.on = "fixer" /\ returned.args.key = "key1"
  /\ returned.ret = "fixer"
  /\ fields["fixer"].accessKey = "key1"
  /\ base = [google |-> "GBP", fixer |-> "EUR"]
  /\ currentExchange = "fixer" /\ config.default = "google"

\* k is x rounded to the nearest integer, a half going up
IsHalfUp(k, x) ==
  /\ k.d = 1
  /\ (2 * k.n - 1) * x.d <= 2 * x.n
  /\ 2 * x.n < (2 * k.n + 1) * x.d

\* C19: round(value, p), p being 2 when left out, is value * 10^p rounded
\* half up, over 10^p, on every exchange and through the service whichever
\* exchange is active; rounding the result again gives the result.
C19_Round ==
  (returned.op = "round" /\ ~returned.threw)
    => LET value == returned.args.value
           p == IF returned.args.precision = Undefined THEN 2 ELSE returned.args.precision.n
           ret == returned.ret
       IN  /\ IsHalfUp(RatMul(ret, Num(Pow10(p))), RatMul(value, Num(Pow10(p))))
           /\ round(ret, returned.args.precision) = ret

\* round(123.456) through the service, Fixer being active, is 123.46
C19_Witness ==
  /\ returned.op = "round" /\ returned.on = "service" /\ ~returned.threw
  /\ currentExchange = "fixer"
  /\ returned.args = [value |-> Rat(123456, 1000), precision |-> Undefined]
  /\ returned.ret = Rat(12346, 100)

\* the examples: round(123.456, 2) = 123.46, round(123.456, 0) = 123,
\* round(1.23456, 3) = 1.235, and a half goes up: round(-2.5, 0) = -2
RoundExamples ==
  /\ round(Rat(123456, 1000), Num(2)) = Rat(12346, 100)
  /\ round(Rat(123456, 1000), Num(0)) = Num(123)
  /\ round(Rat(123456, 1000), Undefined) = Rat(12346, 100)
  /\ round(Rat(123456, 100000), Num(3)) = Rat(1235, 1000)
  /\ round(Rat(-5, 2), Num(0)) = Num(-2)

C21_FixerNeedsKey ==
  (returned.op = "fixer" /\ returned.on = "exchanges") =>
    LET cfg == returned.args
        keyed == "accessKey" \in DOMAIN cfg /\ cfg.accessKey.t = "string"
                   /\ cfg.accessKey.s # ""
    IN  /\ returned.threw <=> ~keyed
        /\ returned.threw => returned.ret = S("Fixer exchange requires an accessKey")
        /\ ~returned.threw =>
              /\ returned.ret.name = "fixer"
              /\ returned.ret.accessKey = cfg.accessKey

\* the factory was called without a key, with an empty key and with a key
C21_Witness ==
  /\ returned.op = "fixer" /\ returned.on = "exchanges" /\ returned.threw
  /\ "accessKey" \in DOMAIN returned.args /\ returned.args.accessKey = S("")
C21_WitnessInstance ==
  /\ returned.op = "fixer" /\ returned.on = "exchanges" /\ ~returned.threw
  /\ returned.ret.name = "fixer"

\* the capture group that holds the number in pattern i: the second group
\* of the first pattern, the only group of the other three
NumberGroup(i, m) == IF i = 1 THEN m.g2 ELSE m.g1

\* the number captured by the first pattern, from i on, that matches and
\* whose captured number parses to more than 0
RECURSIVE FirstCaptured(_, _)
FirstCaptured(html, i) ==
  IF i > Len(html) THEN Undefined
  ELSE LET match == html[i]
           rate == IF match = NoMatch THEN NaN
                   ELSE parseFloat(RemoveCommas(NumberGroup(i, match).chars))
       IN  IF ~IsNaN(rate) /\ rate.n > 0 THEN rate ELSE FirstCaptured(html, i + 1)

\* C22: the rate Google's getConvertRate extracts from a body is the number
\* captured by the first pattern, in order, that matches and parses to more
\* than 0, also when only a later pattern matches; commas are removed
C22_FirstMatchingPattern ==
  \A c \in Callers :
    (Settled(c, "getConvertRate") /\ calls[c].ex = "google" /\ calls[c].fetches = 1
       /\ calls[c].resp.kind = "ok") =>
      calls[c].st.ret = FirstCaptured(calls[c].resp.body.matches, 1)

\* what holds of the code: only the first pattern's number is ever read
FirstPatternOnly ==
  \A c \in Callers :
    (Settled(c, "getConvertRate") /\ calls[c].ex = "google" /\ calls[c].fetches = 1
       /\ calls[c].resp.kind = "ok") =>
      LET m == calls[c].resp.body.matches[1]
      IN  calls[c].st.ret =
            IF m = NoMatch THEN Undefined ELSE FirstCaptured(<<m>>, 1)

\* a number greater than 0
Positive(v) == v.t = "number" /\ v.n > 0 /\ v.d > 0

\* C23: the rate Google's getConvertRate resolves to is undefined or a number
\* greater than 0, never 0, negative or NaN, and every rate Google's
\* latestRates stores, while it runs and in its result, is greater than 0
C23_GoogleRatePositive ==
  \A c \in Callers :
    /\ (Settled(c, "getConvertRate") /\ calls[c].ex = "google")
         => /\ ~calls[c].st.threw
            /\ calls[c].st.ret = Undefined \/ Positive(calls[c].st.ret)
    /\ GoogleRatesCall(c)
         => LET rates == IF calls[c].st.pc = "fetch" THEN calls[c].st.k.rates
                         ELSE calls[c].st.ret.rates
            IN  \A code \in DOMAIN rates : Positive(rates[code])

\* getConvertRate has settled on a body whose captured number is 0, and
\* found no rate in it
C23_Witness ==
  \E c \in Callers :
    /\ Settled(c, "getConvertRate") /\ calls[c].ex = "google"
    /\ calls[c].resp = Ok(Html(Match(Undefined, Text(<<"0">>)), NoMatch, NoMatch, NoMatch))
    /\ calls[c].st.ret = Undefined

\* latestRates has stored a fetched rate for a symbol that is not the base
C23_WitnessStored ==
  \E c \in Callers :
    /\ GoogleRatesCall(c) /\ calls[c].st.pc = "done" /\ calls[c].fetches > 0
    /\ \E code \in DOMAIN calls[c].st.ret.rates :
         code # calls[c].st.ret.base /\ Positive(calls[c].st.ret.rates[code])

\* C24: a Google latestRates call is isolated from what runs on the same
\* exchange while it is suspended: every fetch it issues is for the pair
\* (base at its start, symbol), the base of its result is the base at its
\* start, and every rate of the result is 1 for that base or the rate
\* fetched for (that base, symbol)
C24_RatesIsolated ==
  \A c \in Callers :
    GoogleRatesCall(c)
      => LET b == calls[c].baseAtStart
             fetched == NonBase(GoogleSymbols(calls[c].p), b)
             st == calls[c].st
         IN  /\ st.pc = "fetch" => st.req.from = b
             /\ st.pc = "done"
                  => /\ st.ret.base = b
                     /\ \A code \in DOMAIN st.ret.rates :
                          \/ code = b /\ st.ret.rates[code] = One
                          \/ \E j \in DOMAIN fetched \cap DOMAIN calls[c].resps :
                               /\ fetched[j] = code
                               /\ getRate(calls[c].resps[j]).val = st.ret.rates[code]

\* the exchange a request goes to
Upstream(req) == IF req.api = "google" THEN "google" ELSE "fixer"

\* what the method op of exchange ex makes of the responses resps, one per
\* fetch, from the state st on
RECURSIVE ReplayFrom(_, _, _, _, _, _)
ReplayFrom(st, ex, op, p, b, resps) ==
  IF resps = <<>> \/ st.pc # "fetch" THEN st
  ELSE ReplayFrom(MethodResume(ex, op, p, st.k, b, Head(resps)), ex, op, p, b, Tail(resps))

Replay(ex, op, p, b, resps) == ReplayFrom(MethodStart(ex, op, p, b), ex, op, p, b, resps)

\* C25: a service call begun while exchange X was active is served by X to
\* its end, whatever use() selects while it is suspended: its exchange is
\* the one active at its start, each of its fetches goes to X's upstream,
\* and it stands where X's method stands after the responses so far
C25_ServedByActiveAtStart ==
  \A c \in Callers :
    (calls[c].st.pc # "idle" /\ calls[c].via = "service" /\ calls[c].ex # "none")
      => /\ calls[c].ex = calls[c].active
         /\ calls[c].st.pc = "fetch" => Upstream(calls[c].st.req) = calls[c].ex
         /\ calls[c].st = Replay(calls[c].ex, calls[c].op, calls[c].p,
                                 calls[c].baseAtStart, calls[c].resps)

\* a service convert begun on google has settled after use("fixer")
\* executed while it was suspended
C25_Witness ==
  \E c \in Callers :
    /\ calls[c].st.pc = "done" /\ calls[c].via = "service" /\ calls[c].op = "convert"
    /\ calls[c].active = "google" /\ calls[c].ex = "google" /\ calls[c].fetches = 1
    /\ currentExchange = "fixer" /\ last.name = "fixer" /\ ~last.threw
    /\ calls[c].used # "fixer"

\* the envelopes convert and latestRates have resolved to
Envelope(c) ==
  calls[c].st.pc = "done" /\ calls[c].ex # "none" /\ ~calls[c].st.threw
    /\ calls[c].op \in {"convert", "latestRates"}

ErrorTypes == {S("FETCH_ERROR"), S("RATE_NOT_FOUND"), S("CONVERSION_ERROR"), S("API_ERROR")}

\* C26: the type of the error of every envelope that carries one is one of
\* FETCH_ERROR, RATE_NOT_FOUND, CONVERSION_ERROR and API_ERROR, whatever
\* the upstream's body holds
C26_ClosedErrorTypes ==
  \A c \in Callers :
    (Envelope(c) /\ calls[c].st.ret.error # Undefined)
      => calls[c].st.ret.error.type \in ErrorTypes

\* what holds of the code: a type outside the four is the upstream's own
ErrorTypeOursOrUpstreams ==
  \A c \in Callers :
    (Envelope(c) /\ calls[c].st.ret.error # Undefined)
      => \/ calls[c].st.ret.error.type \in ErrorTypes
         \/ /\ calls[c].ex = "fixer" /\ calls[c].resp.kind = "ok"
            /\ calls[c].resp.body # Unparseable
            /\ HasError(calls[c].resp.body)
            /\ calls[c].st.ret.error.type = calls[c].resp.body.error.type

\* C27: every envelope whose success is false carries an error whose info
\* is a non-empty string
C27_FailureCarriesError ==
  \A c \in Callers :
    (Envelope(c) /\ ~calls[c].st.ret.success)
      => /\ calls[c].st.ret.error # Undefined
         /\ calls[c].st.ret.error.info.t = "string"
         /\ calls[c].st.ret.error.info.s # ""

\* caller c's service call of method op begins in this step
Begins(c, op) ==
  Free(c) /\ calls'[c].st.pc # "idle" /\ calls'[c].via = "service" /\ calls'[c].op = op

\* C28: a service convert changes neither the pointer nor any base; a service
\* getExchangeRates changes the base of the active exchange only, to the
\* base it was given and only when it was given one, as it begins, and no
\* later step of either call, whether its fetch fails or not, changes a
\* base or the pointer
C28_ServiceFrame ==
  [][\A c \in Callers :
       /\ Begins(c, "convert") => (currentExchange' = currentExchange /\ base' = base)
       /\ Begins(c, "latestRates")
            => /\ currentExchange' = currentExchange
               /\ base' = IF calls'[c].ex # "none" /\ "base" \in DOMAIN calls'[c].p
                             THEN [base EXCEPT ![currentExchange] = calls'[c].p.base]
                             ELSE base
       /\ (calls[c].st.pc \in {"fetch", "done"}
             /\ calls[c].via = "service" /\ calls'[c] # calls[c])
            => (currentExchange' = currentExchange /\ base' = base)]_vars

\* getExchangeRates({base: "GBP", ...}) on the active google has settled
\* without success: google's base stays GBP, fixer's is untouched
C28_Witness ==
  \E c \in Callers :
    /\ calls[c].st.pc = "done" /\ calls[c].via = "service" /\ calls[c].op = "latestRates"
    /\ calls[c].ex = "google" /\ "base" \in DOMAIN calls[c].p /\ calls[c].p.base = "GBP"
    /\ calls[c].fetches > 0 /\ ~calls[c].st.ret.success
    /\ base["google"] = "GBP" /\ base["fixer"] = DefaultBase["fixer"]

\* the first symbol from position i on that is not b; 0 when there is none
NextFetch(syms, i, b) ==
  LET rest == {j \in i .. Len(syms) : syms[j] # b}
  IN  IF rest = {} THEN 0 ELSE CHOOSE j \in rest : \A l \in rest : j <= l

\* a Google latestRates that has walked its symbols up to position i stands
\* at the fetch of the next symbol that is not the base, with one fetch
\* more than the n it had, or has ended without another fetch
OneFetchPerSymbol(call, i, n, b) ==
  LET syms == GoogleSymbols(call.p)
      j == NextFetch(syms, i, b)
  IN  IF j = 0 THEN call.st.pc = "done" /\ call.fetches = n
      ELSE /\ call.st.pc = "fetch" /\ call.fetches = n + 1
           /\ call.st.k.i = j /\ call.st.req = QuoteRequest(b, syms[j])

\* C30: nothing is fetched twice. A convert with from # to issues one fetch
\* as it begins and none after its response, whatever the response; Fixer's
\* getConvertRate issues at most one, and for a cross-rate it is the one
\* request for both legs; Google's latestRates issues one fetch for each
\* symbol that is not the base, in the order of the symbols, the next one
\* only after the response to the one before
C30_NoRetries ==
  [][\A c \in Callers :
       LET old == calls[c]
           new == calls'[c]
       IN  /\ (Free(c) /\ new.st.pc # "idle" /\ new.ex # "none")
                => /\ (new.op = "convert" /\ new.p.from # new.p.to)
                        => (new.st.pc = "fetch" /\ new.fetches = 1)
                   /\ (new.op = "getConvertRate" /\ new.ex = "fixer")
                        => /\ new.fetches <= 1
                           /\ (new.p.from # new.p.to /\ new.p.from # base["fixer"]
                                  /\ new.p.to # base["fixer"])
                                => (new.st.pc = "fetch"
                                      /\ new.st.req = LatestRequest(base["fixer"],
                                                                    <<new.p.from, new.p.to>>))
                   /\ (new.op = "latestRates" /\ new.ex = "google")
                        => OneFetchPerSymbol(new, 1, 0, new.baseAtStart)
           /\ (old.st.pc = "fetch" /\ new # old)
                => IF old.op = "latestRates" /\ old.ex = "google"
                     THEN OneFetchPerSymbol(new, old.st.k.i + 1, old.fetches, base["google"])
                     ELSE new.st.pc = "done" /\ new.fetches = old.fetches /\ old.fetches = 1]_vars

\* a convert has settled after its one fetch failed
C30_Witness ==
  \E c \in Callers :
    /\ Settled(c, "convert") /\ calls[c].p.from # calls[c].p.to
    /\ calls[c].fetches = 1 /\ calls[c].resp \in Failures

\* Fixer's getConvertRate has settled a cross-rate after one fetch, and
\* Google's latestRates has ended after one fetch for each of two symbols
C30_WitnessCross ==
  \E c \in Callers :
    /\ Settled(c, "getConvertRate") /\ calls[c].ex = "fixer" /\ calls[c].fetches = 1
    /\ calls[c].p.from # calls[c].baseAtStart /\ calls[c].p.to # calls[c].baseAtStart
    /\ calls[c].p.from # calls[c].p.to
C30_WitnessRates ==
  \E c \in Callers :
    /\ GoogleRatesCall(c) /\ calls[c].st.pc = "done" /\ calls[c].fetches = 2
    /\ calls[c].resps[1] \in Failures

\* C29: every service call that is suspended at a fetch settles in the end,
\* provided each fetch is answered or times out, and a call that was
\* resumed from a fetch, by a timeout or by anything else, has resolved
\* and not rejected: after a timeout its success is false or, for Google's
\* latestRates, the symbol is left out unless another fetch of it gave a rate
C29_Terminates ==
  /\ \A c \in Callers : (calls[c].st.pc = "fetch") ~> (calls[c].st.pc = "done")
  /\ [](\A c \in Callers :
          (calls[c].st.pc = "done" /\ calls[c].resps # <<>>)
            => /\ ~calls[c].st.threw
               /\ IF calls[c].op = "latestRates" /\ calls[c].ex = "google"
                    THEN LET fetched == NonBase(GoogleSymbols(calls[c].p), calls[c].baseAtStart)
                         IN  \A j \in DOMAIN calls[c].resps :
                               (calls[c].resps[j] = Timeout
                                  /\ fetched[j] \in DOMAIN calls[c].st.ret.rates)
                                 => \E i \in DOMAIN calls[c].resps :
                                      fetched[i] = fetched[j] /\ calls[c].resps[i] # Timeout
                    ELSE calls[c].resp = Timeout => ~calls[c].st.ret.success)

\* a service convert has resolved, without success, after its fetch timed out
C29_Witness ==
  \E c \in Callers :
    /\ calls[c].st.pc = "done" /\ calls[c].via = "service" /\ calls[c].op = "convert"
    /\ calls[c].resps = <<Timeout>>
    /\ ~calls[c].st.threw /\ ~calls[c].st.ret.success

====
